---------------------------- MODULE Spec2Model ----------------------------
(***************************************************************************)
(* A model of spdted, a decoder of DTED Level-2 elevation tiles:           *)
(*   src/src/coordinate_2d.rs   Coordinate2d (normalised lat/lon)          *)
(*   src/src/parser.rs          the nom parsers of the binary format       *)
(*   src/src/tile.rs            DtedTile: from_bytes, contains, elevation_m*)
(*                                                                         *)
(* f64 values are modelled as binary floating-point numbers with MantBits  *)
(* bits of precision, rounded to nearest, ties to even, after every        *)
(* arithmetic operation, as IEEE 754 does (f64 has 53 bits).  A float is   *)
(* held as the integer  value * 2^ScaleBits.                               *)
(***************************************************************************)
EXTENDS Integers, Sequences, FiniteSets, TLC

VARIABLES
    buf,      \* the byte buffer handed to DtedTile::from_bytes
    pc,       \* position of the decoder inside parse_dted_tile
    pos,      \* offset of the unconsumed input (nom's remaining slice)
    locals,   \* the fields parse_user_header_label has parsed so far
    header,   \* DtedHeader once parse_user_header_label returned it
    data,     \* Vec<i16> of parse_dted_data; 0 where nothing was written yet
    wcount,   \* number of writes each element of data received
    col,      \* index of the next record (column) parse_dted_data handles
    result,   \* outcome of from_bytes: None, Ok, Err, Panic
    err,      \* the nom error of an Err outcome
    flipped,  \* a height byte of a decoded buffer was changed
    elev,     \* outcome of the last elevation_m call
    arg,      \* argument of a call of a pure function
    ret       \* its return value

vars == <<buf, pc, pos, locals, header, data, wcount, col, result, err, flipped, elev, arg, ret>>

----------------------------------------------------------------------------
(* Bounds of the model *)

\* precision of the floating-point format, in bits
MantBits == 10
\* largest point count a generated header declares
MaxPts == 2

----------------------------------------------------------------------------
(* Integers and bytes *)

Byte == 0..255

RECURSIVE Pow2(_)
Pow2(n) == IF n = 0 THEN 1 ELSE 2 * Pow2(n - 1)

Abs(x) == IF x < 0 THEN -x ELSE x

Min(a, b) == IF a < b THEN a ELSE b

\* bit i of the 16-bit pattern x
Bit(x, i) == (x \div Pow2(i)) % 2

\* bitwise operators on 16-bit patterns (the bits of an i16 or u16)
RECURSIVE And16(_, _)
And16(x, y) ==
    IF x = 0 \/ y = 0 THEN 0
    ELSE (x % 2) * (y % 2) + 2 * And16(x \div 2, y \div 2)

RECURSIVE Or16(_, _)
Or16(x, y) ==
    IF x = 0 THEN y
    ELSE IF y = 0 THEN x
    ELSE (IF (x % 2) + (y % 2) > 0 THEN 1 ELSE 0) + 2 * Or16(x \div 2, y \div 2)

Not16(x) == 65535 - x

\* the i16 a 16-bit pattern stands for, and back
ToI16(x) == IF x >= 32768 THEN x - 65536 ELSE x

InI16(v) == v >= -32768 /\ v <= 32767

----------------------------------------------------------------------------
(* f64, scaled down to MantBits bits of precision *)

ScaleBits == MantBits + 8
One == Pow2(ScaleBits)
MantHalf == Pow2(MantBits - 1)

\* the spacing of the floats around a / den (in units of 2^-ScaleBits)
RECURSIVE Quantum(_, _, _)
Quantum(a, den, q) ==
    IF 2 * q * MantHalf <= a \div den THEN Quantum(a, den, 2 * q) ELSE q

RoundHalfEven(a, d) ==
    LET k == a \div d
        r == a % d
    IN  IF r > d - r THEN k + 1
        ELSE IF r = d - r THEN k + (k % 2)
        ELSE k

\* the float nearest to num / den
FRound(num, den) ==
    IF num = 0 THEN 0
    ELSE LET a == Abs(num)
             q == Quantum(a, den, 1)
             m == RoundHalfEven(a, den * q) * q
         IN  IF num < 0 THEN -m ELSE m

\* `k as f64` for an integer k below 2^MantBits: exact
FromInt(k) == k * One

FAdd(x, y) == FRound(x + y, 1)
FSub(x, y) == FRound(x - y, 1)
\* x * k and x / k for a float x and an integer-valued float k
FMulI(x, k) == FRound(x * k, 1)
FDivI(x, k) == FRound(x, k)

\* `x as usize` for a float x >= 0: truncation
AsUsize(x) == IF x <= 0 THEN 0 ELSE x \div One

Ulp(x) == Quantum(Abs(x), 1, 1)
\* the floats next to a float x > 0
NextUp(x) == x + Ulp(x)
NextDown(x) == x - Ulp(x - 1)

----------------------------------------------------------------------------
(* Coordinate2d *)

\* (0.0..=1.0).contains(&x)
InUnit(x) == 0 <= x /\ x <= One

\* a range check that looks at the longitude before the latitude
CoordNewLonFirst(lat, lon) ==
    IF ~InUnit(lon) THEN [ok |-> FALSE, err |-> "LongitudeOutOfRange"]
    ELSE IF ~InUnit(lat) THEN [ok |-> FALSE, err |-> "LatitudeOutOfRange"]
    ELSE [ok |-> TRUE, lat |-> lat, lon |-> lon]

\* Coordinate2d::new: the latitude is looked at first
CoordNew(lat, lon) ==
    IF ~InUnit(lat) THEN [ok |-> FALSE, err |-> "LatitudeOutOfRange"]
    ELSE IF ~InUnit(lon) THEN [ok |-> FALSE, err |-> "LongitudeOutOfRange"]
    ELSE [ok |-> TRUE, lat |-> lat, lon |-> lon]

FromDegrees(lat, lon) ==
    CoordNew(FDivI(FAdd(lat, FromInt(90)), 180), FDivI(FAdd(lon, FromInt(180)), 360))

LatDeg(c) == FSub(FMulI(c.lat, 180), FromInt(90))

LonDeg(c) == FSub(FMulI(c.lon, 360), FromInt(180))


----------------------------------------------------------------------------
(* The byte buffer.  A buffer is held as  head . 0^pad . tail : the bytes of
   head, then pad zero bytes, then the bytes of tail.  The run of zero bytes
   stands for the DSI and ACC blocks, which the parser skips unread.  Offsets
   are Rust's, from 0. *)

BufLen(b) == Len(b.head) + b.pad + Len(b.tail)

ByteAt(b, i) ==
    IF i < Len(b.head) THEN b.head[i + 1]
    ELSE IF i < Len(b.head) + b.pad THEN 0
    ELSE b.tail[i - Len(b.head) - b.pad + 1]

\* the sum of the n bytes from offset p on
RECURSIVE SumBytes(_, _, _)
SumBytes(b, p, n) == IF n = 0 THEN 0 ELSE ByteAt(b, p) + SumBytes(b, p + 1, n - 1)

----------------------------------------------------------------------------
(* nom's parsers (complete input), on the buffer b from offset p on.  A result
   is the new offset and a value, or nom's error: its kind, the offset of the
   input it names, and the offset the parser needed the input to reach. *)

NomOk(p, v) == [ok |-> TRUE, pos |-> p, val |-> v]
NomErr(kind, at, need) == [ok |-> FALSE, kind |-> kind, at |-> at, need |-> need]

\* bytes::complete::take(n): the value is the offset of the taken slice
Take(b, p, n) ==
    IF BufLen(b) - p < n THEN NomErr("Eof", p, p + n) ELSE NomOk(p + n, p)

\* bytes::complete::tag(t)
Tag(b, p, t) ==
    IF /\ BufLen(b) - p >= Len(t)
       /\ \A i \in 1..Len(t) : ByteAt(b, p + i - 1) = t[i]
    THEN NomOk(p + Len(t), p)
    ELSE NomErr("Tag", p, p + Len(t))

\* character::complete::one_of(set)
OneOf(b, p, set) ==
    IF p < BufLen(b) /\ ByteAt(b, p) \in set
    THEN NomOk(p + 1, ByteAt(b, p))
    ELSE NomErr("OneOf", p, p + 1)

IsDigit(c) == c >= 48 /\ c <= 57

\* character::complete::u16 on the n bytes from p on: the digits up to the
\* first byte that is no digit; an error if the first byte is none, or if the
\* value leaves u16
RECURSIVE U16Digits(_, _, _, _, _)
U16Digits(b, p, n, i, value) ==
    IF i = n THEN NomOk(p + i, value)
    ELSE IF ~IsDigit(ByteAt(b, p + i))
         THEN IF i = 0 THEN NomErr("Digit", p, p + n) ELSE NomOk(p + i, value)
         ELSE LET v == value * 10 + (ByteAt(b, p + i) - 48)
              IN  IF v > 65535 THEN NomErr("Digit", p, p + n)
                  ELSE U16Digits(b, p, n, i + 1, v)

\* take(n).and_then(u16): u16 runs on the n taken bytes; what it leaves of
\* them is dropped
TakeU16(b, p, n) ==
    LET t == Take(b, p, n)
    IN  IF ~t.ok THEN t
        ELSE LET u == U16Digits(b, p, n, 0, 0)
             IN  IF u.ok THEN NomOk(p + n, u.val) ELSE u

\* combinator::verify(r, cond), r being the result of the parser run at p
Verify(r, p, cond) ==
    IF ~r.ok THEN r
    ELSE IF cond THEN r
    ELSE NomErr("Verify", p, p)

----------------------------------------------------------------------------
(* parse_angle: DDDMMSSH *)

HemiPositive == {78, 69}   \* N, E
HemiNegative == {83, 87}   \* S, W

ParseAngle(b, p) ==
    LET d == TakeU16(b, p, 3)
    IN  IF ~d.ok THEN d
        ELSE LET m == Take(b, d.pos, 4)
             IN  IF ~m.ok THEN m
                 ELSE LET h == OneOf(b, m.pos, HemiPositive \cup HemiNegative)
                      IN  IF ~h.ok THEN h
                          ELSE NomOk(h.pos,
                                     IF h.val \in HemiPositive
                                     THEN FromInt(d.val) ELSE -FromInt(d.val))

----------------------------------------------------------------------------
(* parse_height: two big-endian sign-magnitude bytes to an i16.  The value is
   computed on 16-bit patterns as the code computes it; overflow says whether
   the i16 subtraction left the i16 range (a panic in a debug build, a wrapped
   value in a release build). *)

\* the two bytes read as a two's-complement big-endian i16
ParseHeightTwosComplement(hi, lo) == [val |-> ToI16(hi * 256 + lo), overflow |-> FALSE]

\* parse_height
ParseHeight(hi, lo) ==
    LET x == hi * 256 + lo                              \* (hi << 8) | lo, as i16
        mask == IF Bit(x, 15) = 1 THEN 65535 ELSE 0     \* x >> 15, arithmetic
        t == And16(x, 32768)                            \* x & (1 << 15)
        diff == ToI16(t) - ToI16(x)                     \* (x & (1 << 15)) - x
        sub == diff % 65536                             \* its 16-bit pattern
    IN  [val |-> ToI16(Or16(And16(Not16(mask), x), And16(mask, sub))),
         overflow |-> ~InI16(diff)]

----------------------------------------------------------------------------
(* parse_user_header_label *)

TagUHL1 == <<85, 72, 76, 49>>

\* bytes skipped after the origin, and after the point counts
SkipIntervals == 27
SkipReserved == 25

\* a longitude check that lets 180 degrees through
OriginLonInRangeClosed(lon) == FromInt(-180) <= lon /\ lon <= FromInt(180)

\* (-180.0..180.0).contains(lon) and (-90.0..90.0).contains(lat)
OriginLonInRange(lon) == FromInt(-180) <= lon /\ lon < FromInt(180)
OriginLatInRange(lat) == FromInt(-90) <= lat /\ lat < FromInt(90)

\* Coordinate2d::from_degrees(origin_lat, origin_lon).expect(..) and the header
\* built from it; kind "Panic" when expect() fails
BuildHeader(l, p) ==
    LET origin == FromDegrees(l.origin_lat, l.origin_lon)
    IN  IF ~origin.ok THEN NomErr("Panic", p, p)
        ELSE NomOk(p, [present |-> TRUE,
                       origin_sw |-> origin,
                       num_lat_points |-> l.num_lat_points,
                       num_lon_points |-> l.num_lon_points])

----------------------------------------------------------------------------
(* parse_dted_record_into and parse_dted_data *)

\* bytes of the DSI and ACC blocks, skipped between header and data
DsiAccSize == 3348
RecordHeaderSize == 8
RecordChecksumSize == 4

\* a record without its checksum, and with it
RecordSize(n_lats) == n_lats * 2 + RecordHeaderSize
TotalRecordSize(n_lats) == RecordSize(n_lats) + RecordChecksumSize

\* be_u32 of the 4 bytes from p on equals v (0 <= v < 2^32)
Be32Equals(b, p, v) ==
    \A i \in 0..3 : ByteAt(b, p + i) = (v \div Pow2(8 * (3 - i))) % 256

\* a comparison of the lowest byte of the checksum only
ChecksumMismatchLowByte(b, s, n_lats) ==
    ByteAt(b, s + RecordSize(n_lats) + 3) # SumBytes(b, s, RecordSize(n_lats)) % 256

\* expected_checksum != checksum, for the record that starts at s; the sum of
\* the at most 8 + 2 * 9999 bytes stays below 2^32
ChecksumMismatch(b, s, n_lats) ==
    ~Be32Equals(b, s + RecordSize(n_lats), SumBytes(b, s, RecordSize(n_lats)))

\* the record that starts at s, with n_lats heights: the decoded column
ParseDtedRecordInto(b, s, n_lats) ==
    IF ChecksumMismatch(b, s, n_lats) THEN NomErr("Verify", s, s + TotalRecordSize(n_lats))
    ELSE LET h == [j \in 1..n_lats |->
                     ParseHeight(ByteAt(b, s + RecordHeaderSize + 2 * (j - 1)),
                                 ByteAt(b, s + RecordHeaderSize + 2 * (j - 1) + 1))]
         IN  IF \E j \in 1..n_lats : h[j].overflow
             THEN NomErr("Panic", s, s + TotalRecordSize(n_lats))
             ELSE NomOk(s + TotalRecordSize(n_lats), [j \in 1..n_lats |-> h[j].val])

\* a size check that forgets the checksum bytes of the records
InputTooShortNoChecksum(have, n_lats, n_lons) == have < RecordSize(n_lats) * n_lons

\* input.len() < required_input_size
InputTooShort(have, n_lats, n_lons) == have < TotalRecordSize(n_lats) * n_lons

\* how often the zip of the column chunks and the record chunks yields
Iterations(have, n_lats, n_lons) == Min(n_lons, have \div TotalRecordSize(n_lats))

\* the index in the Vec of grid[[j, k]] under the row-major layout
GridIndexRowMajor(j, k, n_lats, n_lons) == k + j * n_lons

\* the index in the Vec of grid[[j, k]]: shape (n_lats, n_lons).f()
GridIndex(j, k, n_lats, n_lons) == j + k * n_lats

----------------------------------------------------------------------------
(* DtedTile *)

MinLatDeg(h) == LatDeg(h.origin_sw)
MaxLatDeg(h) == FAdd(LatDeg(h.origin_sw), One)
MinLonDeg(h) == LonDeg(h.origin_sw)
MaxLonDeg(h) == FAdd(LonDeg(h.origin_sw), One)

Contains(h, c) ==
    /\ MinLatDeg(h) <= LatDeg(c) /\ LatDeg(c) <= MaxLatDeg(h)
    /\ MinLonDeg(h) <= LonDeg(c) /\ LonDeg(c) <= MaxLonDeg(h)

LonIndex(h, c) == AsUsize(FMulI(FSub(LonDeg(c), MinLonDeg(h)), h.num_lon_points))
LatIndex(h, c) == AsUsize(FMulI(FSub(LatDeg(c), MinLatDeg(h)), h.num_lat_points))

\* None, Some(value), or the panic of ndarray's index out of bounds
ElevationM(h, d, c) ==
    IF ~Contains(h, c) THEN [done |-> TRUE, kind |-> "None", coord |-> c]
    ELSE LET lon_index == LonIndex(h, c)
             lat_index == LatIndex(h, c)
         IN  IF lat_index >= h.num_lat_points \/ lon_index >= h.num_lon_points
             THEN [done |-> TRUE, kind |-> "Panic", coord |-> c,
                   lat_index |-> lat_index, lon_index |-> lon_index]
             ELSE [done |-> TRUE, kind |-> "Some", coord |-> c,
                   lat_index |-> lat_index, lon_index |-> lon_index,
                   val |-> d[GridIndex(lat_index, lon_index,
                                       h.num_lat_points, h.num_lon_points) + 1]]

----------------------------------------------------------------------------
(* Values the state holds before anything ran *)

EmptyBuf == [head |-> <<>>, pad |-> 0, tail |-> <<>>]
NoHeader == [present |-> FALSE]
NoLocals == [origin_lon |-> 0, origin_lat |-> 0, num_lon_points |-> 0, num_lat_points |-> 0]
NoErr == [kind |-> "None", at |-> 0, need |-> 0]
NoElev == [done |-> FALSE]
Pending == [done |-> FALSE]
NoArg == [op |-> "none"]

\* the decoder is not part of the run
IdleRest ==
    /\ pc = "idle"
    /\ pos = 0
    /\ locals = NoLocals
    /\ header = NoHeader
    /\ data = <<>>
    /\ wcount = <<>>
    /\ col = 0
    /\ result = "None"
    /\ err = NoErr
    /\ flipped = FALSE
    /\ elev = NoElev

IdleDecode == buf = EmptyBuf /\ IdleRest

decodeVars == <<buf, pc, pos, locals, header, data, wcount, col, result, err, flipped, elev>>

----------------------------------------------------------------------------
(* The buffers the decoder is run on *)

RECURSIVE Pow10(_)
Pow10(n) == IF n = 0 THEN 1 ELSE 10 * Pow10(n - 1)

RECURSIVE SumSeq(_)
SumSeq(q) == IF q = <<>> THEN 0 ELSE Head(q) + SumSeq(Tail(q))

RECURSIVE Concat(_)
Concat(qs) == IF qs = <<>> THEN <<>> ELSE Head(qs) \o Concat(Tail(qs))

Fill(n, c) == [i \in 1..n |-> c]

\* v in w decimal digits, and v in 4 big-endian bytes
AsciiNum(v, w) == [i \in 1..w |-> 48 + ((v \div Pow10(w - i)) % 10)]
Be32(v) == [i \in 1..4 |-> (v \div Pow2(8 * (4 - i))) % 256]

AngleField(deg, hemi) == AsciiNum(deg, 3) \o Fill(4, 48) \o <<hemi>>

HeaderBytes(tag, lonF, latF, nlon, nlat) ==
    tag \o lonF \o latF \o Fill(SkipIntervals, 32)
        \o AsciiNum(nlon, 4) \o AsciiNum(nlat, 4) \o Fill(SkipReserved, 32)

\* sign-magnitude heights 1, -2 and -32767, and negative zero
HeightPatterns == <<<<0, 1>>, <<128, 2>>, <<255, 255>>, <<128, 0>>>>

\* a record of n_lats heights whose stored checksum is off by delta
RecordBytes(seed, n_lats, delta) ==
    LET body == <<170, 0, 0, seed, 0, seed, 0, 0>>
                \o Concat([j \in 1..n_lats |-> HeightPatterns[((seed + j) % 4) + 1]])
    IN  body \o Be32(SumSeq(body) + delta)

\* n_lons records; record bad (if any) has a checksum off by delta
DataBytes(seeds, n_lats, n_lons, bad, delta) ==
    Concat([k \in 1..n_lons |->
              RecordBytes(seeds[k], n_lats, IF k = bad THEN delta ELSE 0)])

StdSeeds(n_lons) == [k \in 1..n_lons |-> k % 3]

File(hdr, dat) == [head |-> hdr, pad |-> DsiAccSize, tail |-> dat]

\* the first n bytes of b
Truncate(b, n) ==
    LET h == Min(n, Len(b.head))
        p == Min(n - h, b.pad)
        t == Min(n - h - p, Len(b.tail))
    IN  [head |-> SubSeq(b.head, 1, h), pad |-> p, tail |-> SubSeq(b.tail, 1, t)]

\* b with the byte at offset i, a byte of tail, set to v
SetByte(b, i, v) ==
    [b EXCEPT !.tail[i - Len(b.head) - b.pad + 1] = v]

TagFields == {TagUHL1, <<85, 72, 76, 50>>}
\* 180W 8E 179E 180E 181W 0W
LonFields == {AngleField(180, 87), AngleField(8, 69), AngleField(179, 69),
              AngleField(180, 69), AngleField(181, 87), AngleField(0, 87)}
\* 90S 47N 89N 90N 91S 0N
LatFields == {AngleField(90, 83), AngleField(47, 78), AngleField(89, 78),
              AngleField(90, 78), AngleField(91, 83), AngleField(0, 78)}

BaseHeader(nlon, nlat) ==
    HeaderBytes(TagUHL1, AngleField(8, 69), AngleField(47, 78), nlon, nlat)

Pts == 0..MaxPts

\* every tag and origin, with the data the header declares
HeaderFiles ==
    {File(HeaderBytes(t, lo, la, MaxPts, MaxPts),
          DataBytes(StdSeeds(MaxPts), MaxPts, MaxPts, 0, 0)) :
        t \in TagFields, lo \in LonFields, la \in LatFields}

\* every point count, heights and checksums right or wrong
DataFiles ==
    UNION {{File(BaseHeader(nlon, nlat), DataBytes(sd, nlat, nlon, bad, delta)) :
              sd \in [1..nlon -> 0..2], bad \in 0..nlon, delta \in {1, 256}} :
           nlon \in Pts, nlat \in Pts}

\* headers that declare other point counts than the data holds
MismatchFiles ==
    {File(BaseHeader(nlon, nlat), DataBytes(StdSeeds(dlon), dlat, dlon, 0, 0)) :
        nlon \in Pts, nlat \in Pts, dlon \in Pts, dlat \in Pts}

\* well-formed files cut short
CutFiles ==
    UNION {LET f == File(BaseHeader(nlon, nlat), DataBytes(StdSeeds(nlon), nlat, nlon, 0, 0))
           IN  {Truncate(f, n) :
                  n \in (0..20) \cup {46, 47, 50, 51, 54, 55, 79, 80, 81}
                        \cup ((80 + DsiAccSize - 1)..BufLen(f))} :
           nlon \in Pts, nlat \in Pts}

\* files with a wrong tag or origin cut short
CutHeaderFiles ==
    {Truncate(f, n) : f \in HeaderFiles, n \in {3, 11, 19, 30, 3000}}

Files == HeaderFiles \cup DataFiles \cup MismatchFiles \cup CutFiles \cup CutHeaderFiles

\* the coordinates elevation_m is asked for
QueryLats == {FromInt(93) \div 2, FromInt(47), FromInt(95) \div 2, FromInt(48),
              FromInt(97) \div 2, FromInt(-90), FromInt(-179) \div 2, FromInt(-89),
              FromInt(179) \div 2, FromInt(90)}
QueryLons == {FromInt(15) \div 2, FromInt(8), FromInt(17) \div 2, FromInt(9),
              FromInt(19) \div 2, FromInt(-180), FromInt(-359) \div 2, FromInt(-179),
              FromInt(359) \div 2, FromInt(180)}

----------------------------------------------------------------------------
(* DtedTile::from_bytes, step by step, and the calls on the tile it returns *)

Init ==
    /\ buf \in Files
    /\ pc = "start"
    /\ pos = 0
    /\ locals = NoLocals
    /\ header = NoHeader
    /\ data = <<>>
    /\ wcount = <<>>
    /\ col = 0
    /\ result = "None"
    /\ err = NoErr
    /\ flipped = FALSE
    /\ elev = NoElev
    /\ arg = NoArg
    /\ ret = Pending

\* a parser failed: from_bytes returns Err(ParseError::Invalid), or panics
Fail(r) ==
    /\ pc' = "done"
    /\ result' = IF r.kind = "Panic" THEN "Panic" ELSE "Err"
    /\ err' = [kind |-> r.kind, at |-> r.at, need |-> r.need]

\* the parser's result r ends a step of the header: on to nxt, or fail
Advance(r, nxt) ==
    IF r.ok
    THEN /\ pos' = r.pos
         /\ pc' = nxt
         /\ UNCHANGED <<result, err>>
    ELSE /\ Fail(r)
         /\ UNCHANGED pos

restOfDecode == <<buf, data, wcount, col, flipped, elev, arg, ret>>

\* parse_user_header_label: tag("UHL1")
TagStep ==
    /\ pc = "start"
    /\ Advance(Tag(buf, pos, TagUHL1), "origin_lon")
    /\ UNCHANGED <<locals, header, restOfDecode>>

\* parse_user_header_label: verify(parse_angle, lon in -180.0..180.0)
OriginLonStep ==
    /\ pc = "origin_lon"
    /\ LET a == ParseAngle(buf, pos)
           r == Verify(a, pos, a.ok /\ OriginLonInRange(a.val))
       IN  /\ Advance(r, "origin_lat")
           /\ locals' = IF r.ok THEN [locals EXCEPT !.origin_lon = r.val] ELSE locals
    /\ UNCHANGED <<header, restOfDecode>>

\* parse_user_header_label: verify(parse_angle, lat in -90.0..90.0)
OriginLatStep ==
    /\ pc = "origin_lat"
    /\ LET a == ParseAngle(buf, pos)
           r == Verify(a, pos, a.ok /\ OriginLatInRange(a.val))
       IN  /\ Advance(r, "skip_intervals")
           /\ locals' = IF r.ok THEN [locals EXCEPT !.origin_lat = r.val] ELSE locals
    /\ UNCHANGED <<header, restOfDecode>>

\* parse_user_header_label: take(27)
SkipIntervalsStep ==
    /\ pc = "skip_intervals"
    /\ Advance(Take(buf, pos, SkipIntervals), "num_lon")
    /\ UNCHANGED <<locals, header, restOfDecode>>

\* parse_user_header_label: take(4).and_then(u16), the longitude point count
NumLonStep ==
    /\ pc = "num_lon"
    /\ LET r == TakeU16(buf, pos, 4)
       IN  /\ Advance(r, "num_lat")
           /\ locals' = IF r.ok THEN [locals EXCEPT !.num_lon_points = r.val] ELSE locals
    /\ UNCHANGED <<header, restOfDecode>>

\* parse_user_header_label: take(4).and_then(u16), the latitude point count
NumLatStep ==
    /\ pc = "num_lat"
    /\ LET r == TakeU16(buf, pos, 4)
       IN  /\ Advance(r, "skip_reserved")
           /\ locals' = IF r.ok THEN [locals EXCEPT !.num_lat_points = r.val] ELSE locals
    /\ UNCHANGED <<header, restOfDecode>>

\* parse_user_header_label: take(25), then the origin and the header
HeaderEndStep ==
    /\ pc = "skip_reserved"
    /\ LET t == Take(buf, pos, SkipReserved)
           r == IF t.ok THEN BuildHeader(locals, t.pos) ELSE t
       IN  /\ Advance(r, "skip")
           /\ header' = IF r.ok THEN r.val ELSE header
    /\ UNCHANGED <<locals, restOfDecode>>

\* parse_dted_tile: take(3348)
SkipStep ==
    /\ pc = "skip"
    /\ Advance(Take(buf, pos, DsiAccSize), "data")
    /\ UNCHANGED <<locals, header, restOfDecode>>

\* parse_dted_data up to its loop: the size check, Vec::with_capacity, and
\* chunks_exact_mut(n_lats), which panics on a chunk size of 0
DataBegin ==
    /\ pc = "data"
    /\ LET n_lats == header.num_lat_points
           n_lons == header.num_lon_points
           have == BufLen(buf) - pos
       IN  IF InputTooShort(have, n_lats, n_lons)
           THEN /\ Fail(NomErr("Eof", pos, pos + TotalRecordSize(n_lats) * n_lons))
                /\ UNCHANGED <<data, wcount>>
           ELSE IF n_lats = 0
           THEN /\ Fail(NomErr("Panic", pos, pos))
                /\ UNCHANGED <<data, wcount>>
           ELSE /\ data' = [i \in 1..(n_lats * n_lons) |-> 0]
                /\ wcount' = [i \in 1..(n_lats * n_lons) |-> 0]
                /\ pc' = "records"
                /\ UNCHANGED <<result, err>>
    /\ col' = 0
    /\ UNCHANGED <<buf, pos, locals, header, flipped, elev, arg, ret>>

\* one turn of the loop of parse_dted_data: parse_dted_record_into
RecordStep ==
    /\ pc = "records"
    /\ LET n_lats == header.num_lat_points
           n_lons == header.num_lon_points
       IN  /\ col < Iterations(BufLen(buf) - pos, n_lats, n_lons)
           /\ LET r == ParseDtedRecordInto(buf, pos + col * TotalRecordSize(n_lats), n_lats)
              IN  IF r.ok
                  THEN /\ data' = [i \in 1..Len(data) |->
                                     IF i > col * n_lats /\ i <= (col + 1) * n_lats
                                     THEN r.val[i - col * n_lats] ELSE data[i]]
                       /\ wcount' = [i \in 1..Len(wcount) |->
                                     IF i > col * n_lats /\ i <= (col + 1) * n_lats
                                     THEN wcount[i] + 1 ELSE wcount[i]]
                       /\ col' = col + 1
                       /\ UNCHANGED <<pc, result, err>>
                  ELSE /\ Fail(r)
                       /\ UNCHANGED <<data, wcount, col>>
    /\ UNCHANGED <<buf, pos, locals, header, flipped, elev, arg, ret>>

\* parse_dted_data after its loop: set_len, from_shape_vec, the rest of the
\* input (a slice that panics past the end); from_bytes returns Ok(tile)
DataEnd ==
    /\ pc = "records"
    /\ LET n_lats == header.num_lat_points
           n_lons == header.num_lon_points
       IN  /\ col = Iterations(BufLen(buf) - pos, n_lats, n_lons)
           /\ IF pos + TotalRecordSize(n_lats) * n_lons > BufLen(buf)
              THEN /\ Fail(NomErr("Panic", pos, pos + TotalRecordSize(n_lats) * n_lons))
                   /\ UNCHANGED pos
              ELSE /\ pos' = pos + TotalRecordSize(n_lats) * n_lons
                   /\ pc' = "done"
                   /\ result' = "Ok"
                   /\ UNCHANGED err
    /\ UNCHANGED <<locals, header, restOfDecode>>

\* offset of the first record
DataOffset == Len(BaseHeader(0, 0)) + DsiAccSize

\* the caller changes one byte of the height data of a buffer that decoded,
\* and decodes the buffer again
FlipHeightByte ==
    /\ pc = "done"
    /\ result = "Ok"
    /\ ~flipped
    /\ \E k \in 0..(header.num_lon_points - 1),
          i \in 0..(2 * header.num_lat_points - 1),
          d \in {1, 128, 255} :
          LET at == DataOffset + k * TotalRecordSize(header.num_lat_points)
                    + RecordHeaderSize + i
          IN  buf' = SetByte(buf, at, (ByteAt(buf, at) + d) % 256)
    /\ flipped' = TRUE
    /\ pc' = "start"
    /\ pos' = 0
    /\ locals' = NoLocals
    /\ header' = NoHeader
    /\ data' = <<>>
    /\ wcount' = <<>>
    /\ col' = 0
    /\ result' = "None"
    /\ err' = NoErr
    /\ elev' = NoElev
    /\ UNCHANGED <<arg, ret>>

\* tile.elevation_m(coord), coord built by Coordinate2d::from_degrees
CallElevationM ==
    /\ pc = "done"
    /\ result = "Ok"
    /\ ~elev.done
    /\ \E a \in QueryLats, b \in QueryLons :
          LET c == FromDegrees(a, b)
          IN  /\ c.ok
              /\ elev' = ElevationM(header, data, c)
    /\ UNCHANGED <<buf, pc, pos, locals, header, data, wcount, col, result, err, flipped, arg, ret>>

Next ==
    \/ TagStep
    \/ OriginLonStep
    \/ OriginLatStep
    \/ SkipIntervalsStep
    \/ NumLonStep
    \/ NumLatStep
    \/ HeaderEndStep
    \/ SkipStep
    \/ DataBegin
    \/ RecordStep
    \/ DataEnd
    \/ FlipHeightByte
    \/ CallElevationM

Spec == Init /\ [][Next]_vars

----------------------------------------------------------------------------
(* Claims about from_bytes and the tile *)

Done == pc = "done"
DecodedOk == pc = "done" /\ result = "Ok"

\* grid[[j, k]] of the tile
Grid(j, k) == data[GridIndex(j, k, header.num_lat_points, header.num_lon_points) + 1]

\* the rule of the format: bit 15 is the sign, bits 0..14 the magnitude
SignMagnitude(hi, lo) ==
    LET magnitude == (hi % 128) * 256 + lo
    IN  IF hi >= 128 THEN -magnitude ELSE magnitude

\* offset of record k of a grid with n_lats rows
RecordAt(k, n_lats) == 3428 + k * (8 + 2 * n_lats + 4)

\* the checksum stored after record k is the sum of its header and height bytes
StoredChecksumRight(k, n_lats) ==
    LET total == SumBytes(buf, RecordAt(k, n_lats), 8 + 2 * n_lats)
    IN  \A i \in 0..3 :
            ByteAt(buf, RecordAt(k, n_lats) + 8 + 2 * n_lats + i)
                = (total \div Pow2(8 * (3 - i))) % 256

(* C1: once a height byte of a buffer that decoded is changed, the checksum
   left as it was, from_bytes returns Err(Invalid); and from_bytes returns a
   tile only if every record's stored checksum is the sum of its 8 header
   bytes and 2 * num_lat height bytes. *)
C1_ChecksumEnforced ==
    /\ Done /\ flipped => result = "Err" /\ err.kind = "Verify"
    /\ DecodedOk =>
         \A k \in 0..(header.num_lon_points - 1) :
             StoredChecksumRight(k, header.num_lat_points)

\* a byte of the second record was changed and the decoder refused the buffer
C1_Witness ==
    /\ Done
    /\ flipped
    /\ result = "Err"
    /\ err.kind = "Verify"
    /\ header.present
    /\ header.num_lat_points >= 2
    /\ err.at > 3428

\* no element of the Vec was written, no record was parsed
NoRecordParsed == col = 0 /\ \A i \in 1..Len(wcount) : wcount[i] = 0

\* the buffer is shorter than the format requires
Truncated ==
    \/ BufLen(buf) < 80 + 3348
    \/ /\ header.present
       /\ BufLen(buf) - 3428 < header.num_lon_points * (8 + 2 * header.num_lat_points + 4)

(* C4, as stated: a buffer shorter than the format requires makes from_bytes
   return Err(Invalid) with an end-of-input (Eof) error, before any record is
   parsed, without a panic. *)
C4_Original ==
    Done /\ Truncated =>
        /\ result = "Err"
        /\ err.kind = "Eof"
        /\ NoRecordParsed

(* C4, amended: a buffer shorter than the format requires makes from_bytes
   return Err(Invalid) before any record is parsed, without a panic; when the
   failing parser ran out of input the error kind is Tag inside the "UHL1"
   tag, OneOf at a hemisphere byte and Eof everywhere else, and Eof is
   reported only when the input ran out. *)
C4_Amended ==
    Done /\ Truncated =>
        /\ result = "Err"
        /\ NoRecordParsed
        /\ err.need > BufLen(buf) =>
             err.kind = (IF err.at < 4 THEN "Tag"
                         ELSE IF err.at \in {11, 19} THEN "OneOf"
                         ELSE "Eof")
        /\ err.kind = "Eof" => err.need > BufLen(buf)

\* the data block holds a whole record but not all of them: refused with Eof
C4_Witness ==
    /\ Done
    /\ header.present
    /\ header.num_lon_points >= 2
    /\ BufLen(buf) - 3428 >= 8 + 2 * header.num_lat_points + 4
    /\ Truncated
    /\ result = "Err"
    /\ err.kind = "Eof"
    /\ col = 0

\* parse_angle read the tag and an origin longitude / latitude
LonDecoded == Tag(buf, 0, TagUHL1).ok /\ ParseAngle(buf, 4).ok
LatDecoded == LonDecoded /\ ParseAngle(buf, 12).ok

\* the decoder is at or before the step named, or failed in it with Verify
RefusedAt(steps, at) ==
    \/ pc \in steps
    \/ Done /\ result = "Err" /\ err.kind = "Verify" /\ err.at = at

(* C5, as stated: the header is refused unless the origin longitude is
   strictly inside (-180, 180) and the origin latitude strictly inside
   (-90, 90); a decoded tile has -180 < lon < 180 and -90 < lat < 90. *)
C5_Original ==
    /\ LonDecoded /\ ~(-180 * One < ParseAngle(buf, 4).val
                       /\ ParseAngle(buf, 4).val < 180 * One)
         => RefusedAt({"start", "origin_lon"}, 4)
    /\ DecodedOk =>
         /\ -180 * One < locals.origin_lon /\ locals.origin_lon < 180 * One
         /\ -90 * One < locals.origin_lat /\ locals.origin_lat < 90 * One

(* C5, amended: the header is refused unless the origin longitude is in
   [-180, 180) and the origin latitude in [-90, 90): the lower ends -180 and
   -90 are accepted, the upper ends 180 and 90 refused; a decoded tile has
   -180 <= lon < 180 and -90 <= lat < 90. *)
C5_Amended ==
    /\ LonDecoded /\ ~(-180 * One <= ParseAngle(buf, 4).val
                       /\ ParseAngle(buf, 4).val < 180 * One)
         => RefusedAt({"start", "origin_lon"}, 4)
    /\ LatDecoded /\ ~(-90 * One <= ParseAngle(buf, 12).val
                       /\ ParseAngle(buf, 12).val < 90 * One)
         => RefusedAt({"start", "origin_lon", "origin_lat"}, 12)
            \/ RefusedAt({}, 4)
    /\ DecodedOk =>
         /\ locals.origin_lon = ParseAngle(buf, 4).val
         /\ locals.origin_lat = ParseAngle(buf, 12).val
         /\ -180 * One <= locals.origin_lon /\ locals.origin_lon < 180 * One
         /\ -90 * One <= locals.origin_lat /\ locals.origin_lat < 90 * One

\* a tile whose origin is 180W 90S was decoded
C5_Witness ==
    /\ DecodedOk
    /\ locals.origin_lon = -180 * One
    /\ locals.origin_lat = -90 * One

(* C7: whenever from_bytes returns a tile, its header has num_lat() >= 1 and
   num_lon() >= 1. *)
C7_Claim ==
    DecodedOk => header.num_lat_points >= 1 /\ header.num_lon_points >= 1

(* C8: whenever from_bytes returns a tile, the grid has num_lat * num_lon
   cells, grid[j, k] is the sign-magnitude value of the j-th height of the
   k-th record (record k starts at offset 3428 + k * (8 + 2 * num_lat + 4), its
   heights 8 bytes later), and every cell was written exactly once. *)
C8_GridPostcondition ==
    DecodedOk =>
        LET n_lats == header.num_lat_points
            n_lons == header.num_lon_points
        IN  /\ Len(data) = n_lats * n_lons
            /\ \A j \in 0..(n_lats - 1), k \in 0..(n_lons - 1) :
                 /\ Grid(j, k) = SignMagnitude(ByteAt(buf, RecordAt(k, n_lats) + 8 + 2 * j),
                                               ByteAt(buf, RecordAt(k, n_lats) + 8 + 2 * j + 1))
                 /\ wcount[j + k * n_lats + 1] = 1

\* a tile of at least 2 x 2 points whose grid is not symmetric was decoded
C8_Witness ==
    /\ DecodedOk
    /\ header.num_lat_points >= 2
    /\ header.num_lon_points >= 2
    /\ Grid(0, 1) # Grid(1, 0)

(* C10: from_bytes ends with Ok(tile) or Err(Invalid) on every buffer and
   never panics. *)
C10_Claim == result # "Panic"

(* C3: elevation_m returns None when contains(coord) is false; when it is
   true, also on the max-latitude and max-longitude edges, it returns
   Some(grid[lat_index, lon_index]) with lat_index < num_lat and
   lon_index < num_lon.  Stated for tiles with at least one row and column. *)
C3_Claim ==
    /\ DecodedOk
    /\ elev.done
    /\ header.num_lat_points >= 1
    /\ header.num_lon_points >= 1
    => IF ~Contains(header, elev.coord)
       THEN elev.kind = "None"
       ELSE /\ elev.kind = "Some"
            /\ elev.lat_index < header.num_lat_points
            /\ elev.lon_index < header.num_lon_points
            /\ elev.val = Grid(elev.lat_index, elev.lon_index)

----------------------------------------------------------------------------
(* Coordinate2d::new and Coordinate2d::from_degrees on their own *)

\* normalised values around the ends of [0, 1]
UnitInputs ==
    {-One, -1, 0, 1, One \div 2, NextDown(One), One, NextUp(One), 2 * One}

\* degrees around the ends of [-90, 90] and [-180, 180]
LatInputs ==
    {FromInt(-180), -NextUp(NextUp(FromInt(90))), -NextUp(FromInt(90)), FromInt(-90),
     -NextDown(FromInt(90)), 0, FromInt(47), NextDown(FromInt(90)), FromInt(90),
     NextUp(FromInt(90)), NextUp(NextUp(FromInt(90))), FromInt(180)}

LonInputs ==
    {FromInt(-360), -NextUp(NextUp(FromInt(180))), -NextUp(FromInt(180)), FromInt(-180),
     -NextDown(FromInt(180)), 0, FromInt(8), NextDown(FromInt(180)), FromInt(180),
     NextUp(FromInt(180)), NextUp(NextUp(FromInt(180))), FromInt(360)}

CoordArgs ==
    {[op |-> "new", lat |-> a, lon |-> b] : a \in UnitInputs, b \in UnitInputs}
    \cup {[op |-> "from_degrees", lat |-> a, lon |-> b] : a \in LatInputs, b \in LonInputs}

InitCoord ==
    /\ IdleDecode
    /\ arg \in CoordArgs
    /\ ret = Pending

CallNew ==
    /\ arg.op = "new"
    /\ ~ret.done
    /\ ret' = [done |-> TRUE, val |-> CoordNew(arg.lat, arg.lon)]
    /\ UNCHANGED <<decodeVars, arg>>

CallFromDegrees ==
    /\ arg.op = "from_degrees"
    /\ ~ret.done
    /\ ret' = [done |-> TRUE, val |-> FromDegrees(arg.lat, arg.lon)]
    /\ UNCHANGED <<decodeVars, arg>>

NextCoord == CallNew \/ CallFromDegrees

SpecCoord == InitCoord /\ [][NextCoord]_vars

\* the error a range check that looks at the latitude first reports
RangeOutcome(r, latOk, lonOk) ==
    /\ r.ok <=> (latOk /\ lonOk)
    /\ ~latOk => ~r.ok /\ r.err = "LatitudeOutOfRange"
    /\ latOk /\ ~lonOk => ~r.ok /\ r.err = "LongitudeOutOfRange"

NewOutcome ==
    ret.done /\ arg.op = "new" =>
        RangeOutcome(ret.val, 0 <= arg.lat /\ arg.lat <= One, 0 <= arg.lon /\ arg.lon <= One)

(* C9, as stated: new succeeds iff both values are in [0,1], reports the
   latitude first, and from_degrees accepts exactly lat in [-90,90] and lon in
   [-180,180]. *)
C9_Original ==
    /\ NewOutcome
    /\ ret.done /\ arg.op = "from_degrees" =>
        RangeOutcome(ret.val,
                     FromInt(-90) <= arg.lat /\ arg.lat <= FromInt(90),
                     FromInt(-180) <= arg.lon /\ arg.lon <= FromInt(180))

(* C9, amended: as C9, but from_degrees also accepts the one float above 90
   and the one float above 180, whose sums lat + 90.0 and lon + 180.0 round
   to 180.0 and 360.0; every other value outside the ranges is rejected. *)
C9_Amended ==
    /\ NewOutcome
    /\ ret.done /\ arg.op = "from_degrees" =>
        RangeOutcome(ret.val,
                     FromInt(-90) <= arg.lat /\ arg.lat <= NextUp(FromInt(90)),
                     FromInt(-180) <= arg.lon /\ arg.lon <= NextUp(FromInt(180)))

\* from_degrees accepted the float just above 90 degrees
C9_Witness ==
    /\ ret.done
    /\ arg.op = "from_degrees"
    /\ arg.lat = NextUp(FromInt(90))
    /\ arg.lon = FromInt(180)
    /\ ret.val.ok
    /\ ret.val.lat = One

----------------------------------------------------------------------------
(* parse_angle on its own *)

\* bytes of the degrees field: 0 1 9 a space
DegreeBytes == {48, 49, 57, 97, 32}
MinSecFields == {<<48, 48, 48, 48>>, <<53, 57, 97, 78>>}
\* N E S W X n 0
HemiBytes == {78, 69, 83, 87, 88, 110, 48}

AngleFields ==
    {<<a, b, c>> \o ms \o <<h>> :
        a \in DegreeBytes, b \in DegreeBytes, c \in DegreeBytes,
        ms \in MinSecFields, h \in HemiBytes}

\* the fields, what is left of them cut short, and fields with a byte after them
AngleInputs ==
    {SubSeq(f, 1, n) : f \in AngleFields, n \in 0..8}
    \cup {f \o <<t>> : f \in AngleFields, t \in {48, 78}}

InitAngle ==
    /\ buf \in {[head |-> f, pad |-> 0, tail |-> <<>>] : f \in AngleInputs}
    /\ IdleRest
    /\ arg = [op |-> "parse_angle"]
    /\ ret = Pending

CallParseAngle ==
    /\ arg.op = "parse_angle"
    /\ ~ret.done
    /\ ret' = [done |-> TRUE, val |-> ParseAngle(buf, 0)]
    /\ UNCHANGED <<decodeVars, arg>>

NextAngle == CallParseAngle

SpecAngle == InitAngle /\ [][NextAngle]_vars

\* the value of a decimal digit byte
DigitVal(c) == c - 48

(* C6: parse_angle fails whenever one of the three degrees bytes is no ASCII
   digit, whenever fewer than 8 bytes remain, or whenever the last byte is not
   one of N, E, S, W; otherwise it consumes exactly 8 bytes and returns
   sign * degrees, the MMSS bytes ignored. *)
C6_Claim ==
    ret.done /\ arg.op = "parse_angle" =>
        LET f == buf.head
            bad == \/ Len(f) < 8
                   \/ \E i \in 1..3 : ~IsDigit(f[i])
                   \/ f[8] \notin {78, 69, 83, 87}
        IN  /\ bad => ~ret.val.ok
            /\ ~bad =>
                /\ ret.val.ok
                /\ ret.val.pos = 8
                /\ ret.val.val =
                     (IF f[8] \in {78, 69} THEN 1 ELSE -1)
                     * (100 * DigitVal(f[1]) + 10 * DigitVal(f[2]) + DigitVal(f[3])) * One

----------------------------------------------------------------------------
(* parse_height on its own, on every pair of bytes *)

InitHeight ==
    /\ IdleDecode
    /\ arg \in {[op |-> "parse_height", hi |-> h, lo |-> l] : h \in Byte, l \in Byte}
    /\ ret = Pending

CallParseHeight ==
    /\ arg.op = "parse_height"
    /\ ~ret.done
    /\ ret' = [done |-> TRUE, val |-> ParseHeight(arg.hi, arg.lo)]
    /\ UNCHANGED <<decodeVars, arg>>

NextHeight == CallParseHeight

SpecHeight == InitHeight /\ [][NextHeight]_vars

(* C2: on every two-byte pattern parse_height returns what the rule 'if bit 15
   is set then -(bits 0..14) else (bits 0..14)' returns, 0x8000 decodes to 0,
   and the computation never overflows an i16. *)
C2_SignMagnitude ==
    ret.done /\ arg.op = "parse_height" =>
        /\ ret.val.val = SignMagnitude(arg.hi, arg.lo)
        /\ ~ret.val.overflow
        /\ arg.hi = 128 /\ arg.lo = 0 => ret.val.val = 0

\* negative zero was decoded
C2_Witness ==
    /\ ret.done
    /\ arg.op = "parse_height"
    /\ arg.hi = 128
    /\ arg.lo = 0
    /\ ret.val.val = 0

=============================================================================
